---- MODULE Spec2Model ----
(***************************************************************************)
(* RSVP reader: the text preprocessor (utils/orp.ts) and the playback      *)
(* scheduler of the RSVP component (components/RSVP.tsx) with the          *)
(* transport controls of RSVPControls.tsx.                                 *)
(*                                                                         *)
(* Strings are sequences of one-character strings.  Times are integer      *)
(* milliseconds; durations are computed exactly (the reading rates drawn   *)
(* by the model divide 60000 * multiplier).  An optional value (undefined, *)
(* null, NaN) is the empty sequence, a present value v is <<v>>.           *)
(*                                                                         *)
(* React 19 scheduling: updates made in a discrete event handler (click,   *)
(* change, paste) are rendered and their effects flushed before the        *)
(* handler's task ends, so a handler action includes its commit.  Updates  *)
(* made inside animation-frame callbacks are batched and committed after   *)
(* the callbacks of that frame have run.                                   *)
(***************************************************************************)
EXTENDS Integers, Sequences, FiniteSets, TLC

VARIABLES
    text,               \* useState text
    preprocessedWords,  \* useState preprocessedWords
    currentWord,        \* useState currentWord (<<>> = undefined)
    wpm,                \* useState wpm
    isPlaying,          \* useState isPlaying
    isPaused,           \* useState isPaused
    currentWordIndex,   \* useState currentWordIndex
    wordIndexRef,       \* useRef wordIndexRef
    lastTimeRef,        \* useRef lastTimeRef
    animationFrameRef,  \* useRef animationFrameRef (<<>> = null)
    wordsRef,           \* useRef wordsRef
    wpmRef,             \* useRef wpmRef
    isPlayingRef,       \* useRef isPlayingRef
    isPausedRef,        \* useRef isPausedRef
    rafQueue,           \* the browser's pending animation-frame callbacks
    updateFrame,        \* handle held by the cleanup of the wpm/text effect
    loopCleanup,        \* TRUE when the playback effect's cleanup is the cancelling one
    clock,              \* performance.now()
    lastOp,             \* history: the last operation and the state it was invoked in
    run                 \* history: the current playback run (start time, start index, ...)

vars == <<text, preprocessedWords, currentWord, wpm, isPlaying, isPaused,
          currentWordIndex, wordIndexRef, lastTimeRef, animationFrameRef,
          wordsRef, wpmRef, isPlayingRef, isPausedRef, rafQueue, updateFrame,
          loopCleanup, clock, lastOp, run>>

(***************************************************************************)
(* Bounds of the model.                                                    *)
(***************************************************************************)
\* MaxTime: the last clock value, in steps of 100 ms; MaxTextLen: the longest
\* text that pasting builds.
MaxTime == 5
MaxTextLen == 4

(***************************************************************************)
(* Program constants.                                                      *)
(***************************************************************************)
DEFAULT_WPM == 300
WPM_MIN == 100
WPM_MAX == 1000
DefaultFontSize == 8

(***************************************************************************)
(* Input alphabets.                                                        *)
(***************************************************************************)
TextInputs == { <<>>, <<" ">>, <<"a", ",", " ", "b", ".">> }
PasteInputs == { <<"d", ".">> }
RateInputs == { <<"3", "0", "0">>, <<"6", "0", "0">>, <<"5", "0">>,
                <<"1", "0", "5", "0">>, <<"x">> }
Steps == { 100, 500 }

None == <<>>
Some(v) == <<v>>

(***************************************************************************)
(* utils/orp.ts                                                            *)
(***************************************************************************)
IsWhitespace(c) == c \in {" ", "\t", "\n"}

Min(a, b) == IF a <= b THEN a ELSE b
Max(a, b) == IF a >= b THEN a ELSE b

\* String.prototype.slice(from, to) on 0-based indices, to exclusive.
Slice(s, from, to) ==
    LET f == Min(Max(from, 0), Len(s))
        t == Min(Max(to, 0), Len(s))
    IN  IF f >= t THEN <<>> ELSE SubSeq(s, f + 1, t)

\* text.split(/\s+/): the pieces between maximal runs of whitespace, the
\* empty pieces at the ends included.
RECURSIVE SplitFrom(_, _, _, _)
SplitFrom(s, i, cur, acc) ==
    IF i > Len(s) THEN Append(acc, cur)
    ELSE IF IsWhitespace(s[i])
         THEN IF i > 1 /\ IsWhitespace(s[i - 1])
              THEN SplitFrom(s, i + 1, cur, acc)
              ELSE SplitFrom(s, i + 1, <<>>, Append(acc, cur))
         ELSE SplitFrom(s, i + 1, Append(cur, s[i]), acc)

SplitWhitespace(s) == SplitFrom(s, 1, <<>>, <<>>)

\* Mutant: the empty pieces are not filtered out.
AllTokens(tokens) == tokens

\* .filter(word => word.length > 0)
NonEmptyTokens(tokens) == SelectSeq(tokens, LAMBDA w : Len(w) > 0)

\* String.prototype.trim
RECURSIVE TrimStart(_)
TrimStart(s) ==
    IF Len(s) > 0 /\ IsWhitespace(s[1]) THEN TrimStart(Tail(s)) ELSE s

RECURSIVE TrimEnd(_)
TrimEnd(s) ==
    IF Len(s) > 0 /\ IsWhitespace(s[Len(s)])
    THEN TrimEnd(SubSeq(s, 1, Len(s) - 1)) ELSE s

Trim(s) == TrimEnd(TrimStart(s))

\* Mutant: the anchor of a long word is put at its middle as well.
calculateORPHalf(word) == Len(word) \div 2

\* Mutant: the anchor is put behind the last character.
calculateORPPastEnd(word) == Len(word)

\* lines 14-19
calculateORP(word) ==
    IF Len(word) = 0 THEN 0
    ELSE IF Len(word) <= 3 THEN Len(word) \div 2
    ELSE Max(1, Len(word) \div 3)

\* The multiplier in hundredths (1.3 -> 130, 1.15 -> 115, 1.0 -> 100).
getPunctuationMultiplier(word) ==
    LET lastChar == IF Len(word) = 0 THEN None ELSE Some(word[Len(word)])
    IN  IF lastChar \in {Some("."), Some("!"), Some("?")} THEN 130
        ELSE IF lastChar \in {Some(","), Some(";"), Some(":")} THEN 115
        ELSE 100

\* (60 / wpm) * 1000, in milliseconds.
calculateIntervalMs(baseWpm) == 60000 \div baseWpm

\* baseDuration * multiplier, in milliseconds.
WordDuration(baseWpm, multiplier) == (60000 * multiplier) \div (baseWpm * 100)

(***************************************************************************)
(* The numbers of orp.ts are IEEE-754 doubles.  The scheduler above works  *)
(* with the durations in whole milliseconds; what lines 103 and 122        *)
(* compute is modelled exactly here: a double is a 53-bit significand m,   *)
(* kept as MantissaLimbs limbs of LimbBits bits, least significant first,  *)
(* and an exponent e, its value m * 2^e; every operation rounds the exact  *)
(* result to the nearest double, ties to the even significand.             *)
(***************************************************************************)
LimbBits == 13
LimbBase == 8192
MantissaBits == 53
MantissaLimbs == 5
DivisionLimbs == 6

Limb(n, j) == IF j >= 1 /\ j <= Len(n) THEN n[j] ELSE 0

Bit(n, i) == (Limb(n, (i - 1) \div LimbBits + 1) \div 2^((i - 1) % LimbBits)) % 2

BitLength(n) ==
    IF \A j \in 1..Len(n) : n[j] = 0 THEN 0
    ELSE LET top == CHOOSE j \in 1..Len(n) :
                        n[j] # 0 /\ \A k \in (j + 1)..Len(n) : n[k] = 0
             width == CHOOSE k \in 1..LimbBits : 2^(k - 1) <= n[top] /\ n[top] < 2^k
         IN  (top - 1) * LimbBits + width

ShiftRight(n, s, len) ==
    [ j \in 1..len |->
        LET a == s \div LimbBits + j
            r == s % LimbBits
        IN  Limb(n, a) \div 2^r + (Limb(n, a + 1) % 2^r) * 2^(LimbBits - r) ]

AddOne(n) ==
    LET first == CHOOSE j \in 1..Len(n) :
                     (n[j] # LimbBase - 1 \/ j = Len(n))
                     /\ \A k \in 1..(j - 1) : n[k] = LimbBase - 1
    IN  [ j \in 1..Len(n) |->
            IF j < first THEN 0 ELSE IF j = first THEN n[j] + 1 ELSE n[j] ]

RECURSIVE LimbsOfInt(_)
LimbsOfInt(n) == IF n = 0 THEN <<>> ELSE <<n % LimbBase>> \o LimbsOfInt(n \div LimbBase)

RECURSIVE QuotientLimbs(_, _, _, _)
QuotientLimbs(rem, q, k, acc) ==
    IF k = 0 THEN [ limbs |-> acc, rem |-> rem ]
    ELSE QuotientLimbs((rem * LimbBase) % q, q, k - 1,
                       <<(rem * LimbBase) \div q>> \o acc)

RECURSIVE ColumnSum(_, _, _, _)
ColumnSum(x, y, k, i) ==
    IF i > Len(x) THEN 0
    ELSE Limb(x, i) * Limb(y, k - i) + ColumnSum(x, y, k, i + 1)

RECURSIVE CarryLimbs(_, _, _, _, _)
CarryLimbs(x, y, k, carry, acc) ==
    IF k > Len(x) + Len(y) THEN acc
    ELSE LET sum == ColumnSum(x, y, k + 1, 1) + carry
         IN  CarryLimbs(x, y, k + 1, sum \div LimbBase, Append(acc, sum % LimbBase))

MulLimbs(x, y) == CarryLimbs(x, y, 1, 0, <<>>)

RoundToDouble(n, e, sticky) ==
    LET p == [ j \in 1..MantissaLimbs |-> 0 ] \o n
        s == BitLength(p) - MantissaBits
        kept == ShiftRight(p, s, MantissaLimbs)
        low == sticky \/ \E i \in 1..(s - 1) : Bit(p, i) = 1
        up == Bit(p, s) = 1 /\ (low \/ kept[1] % 2 = 1)
        m0 == IF up THEN AddOne(kept) ELSE kept
        e0 == e - MantissaLimbs * LimbBits + s
    IN  IF m0[MantissaLimbs] > 1
        THEN [ m |-> ShiftRight(m0, 1, MantissaLimbs), e |-> e0 + 1 ]
        ELSE [ m |-> m0, e |-> e0 ]

DoubleOfInt(n) == RoundToDouble(LimbsOfInt(n), 0, FALSE)

DoubleOfRatio(p, q) ==
    LET d == QuotientLimbs(p % q, q, DivisionLimbs, LimbsOfInt(p \div q))
    IN  RoundToDouble(d.limbs, 0 - DivisionLimbs * LimbBits, d.rem # 0)

DoubleTimes(a, b) == RoundToDouble(MulLimbs(a.m, b.m), a.e + b.e, FALSE)

\* line 122: (60 / wpm) * 1000
calculateIntervalMsDouble(baseWpm) ==
    DoubleTimes(DoubleOfRatio(60, baseWpm), DoubleOfInt(1000))

\* Mutant: the duration is rounded to the whole millisecond.
durationDoubleRounded(baseWpm, multiplier) ==
    DoubleOfInt((60000 * multiplier + (baseWpm * 100) \div 2) \div (baseWpm * 100))

\* line 103: baseDuration * multiplier, the multiplier being the double of
\* the literal 1.3, 1.15 or 1.0 (given in hundredths).
durationDouble(baseWpm, multiplier) ==
    DoubleTimes(calculateIntervalMsDouble(baseWpm), DoubleOfRatio(multiplier, 100))

\* fontSize * 16 * 0.6, in tenths of a pixel.
calculateMonospaceCharWidth(fontSize) == fontSize * 16 * 6

PreprocessWord(word, baseWpm, fontSize) ==
    LET trimmed == Trim(word)
        anchorIndex == calculateORP(trimmed)
        multiplier == getPunctuationMultiplier(trimmed)
        charWidth == calculateMonospaceCharWidth(fontSize)
    IN  [ word |-> trimmed,
          anchorIndex |-> anchorIndex,
          duration |-> WordDuration(baseWpm, multiplier),
          beforeText |-> Slice(trimmed, 0, anchorIndex),
          anchorChar |-> Slice(trimmed, anchorIndex, anchorIndex + 1),
          afterText |-> Slice(trimmed, anchorIndex + 1, Len(trimmed)),
          beforeOffset |-> 0 - (charWidth \div 2),
          afterOffset |-> charWidth \div 2 ]

processText(txt, baseWpm) ==
    LET words == NonEmptyTokens(SplitWhitespace(txt))
    IN  [ i \in 1..Len(words) |-> PreprocessWord(words[i], baseWpm, DefaultFontSize) ]

(***************************************************************************)
(* The browser's animation-frame queue.  A handle only matters for being   *)
(* distinct from the handles still pending or still held, so a new handle  *)
(* is the least one not in use.                                            *)
(***************************************************************************)
Handles(opt) == { opt[i] : i \in 1..Len(opt) }

QueueIds(q) == { c.id : c \in q }

FreshHandle(used) ==
    CHOOSE n \in 1..(Cardinality(used) + 1) :
        n \notin used /\ \A m \in 1..(n - 1) : m \in used

LoopRequest(id) == [ id |-> id, kind |-> "loop", text |-> <<>>, wpm |-> 0 ]
UpdateRequest(id, txt, rate) == [ id |-> id, kind |-> "update", text |-> txt, wpm |-> rate ]

\* requestAnimationFrame(callback): the queue with the request added.
requestAnimationFrame(q, request) == q \cup { request }

\* Mutant: cancelling does nothing.
cancelAnimationFrameIgnored(q, handle) == q

\* cancelAnimationFrame(handle): the queue without the request of that handle.
cancelAnimationFrame(q, handle) == { c \in q : c.id # handle }

LoopsPending(q) == { c \in q : c.kind = "loop" }
UpdatesPending(q) == { c \in q : c.kind = "update" }

(***************************************************************************)
(* components/RSVP.tsx: the sampling callback loop(now).                   *)
(* It works on a record st of what it reads and writes: the refs idx       *)
(* (wordIndexRef), last (lastTimeRef), afr (animationFrameRef), the        *)
(* requests it adds to the queue, and the state updates it enqueues.       *)
(***************************************************************************)
\* line 75: the callback gives up when the refs say not playing or paused.
LoopGuardStops(playingRef, pausedRef) == ~playingRef \/ pausedRef

\* line 83
IndexExhausted(currentIndex, words) == currentIndex >= Len(words)

\* Mutant: no sample ever finds the boundary reached.
BoundaryNeverReached(delta, duration) == FALSE

\* line 94
BoundaryReached(delta, duration) == delta >= duration

\* Mutant: the boundary is taken from the sample time.
NextBoundaryTimeFromNow(last, duration, now) == now

\* line 105: lastTimeRef.current += currentWordData.duration
NextBoundaryTime(last, duration, now) == last + duration

\* Mutant: a sample late by two boundaries skips to the second record.
AdvanceOnSampleSkipping(st, words, now) ==
    LET currentIndex == st.idx
        delta == now - st.last
        currentWordData == words[currentIndex + 1]
        late == /\ currentIndex + 2 <= Len(words)
                /\ delta >= currentWordData.duration
                            + words[currentIndex + 2].duration
    IN  IF late
        THEN [ st EXCEPT !.cw = Some(words[currentIndex + 2]),
                         !.cwi = currentIndex + 1,
                         !.idx = currentIndex + 2,
                         !.last = st.last + currentWordData.duration
                                  + words[currentIndex + 2].duration ]
        ELSE IF BoundaryReached(delta, currentWordData.duration)
        THEN [ st EXCEPT !.cw = Some(currentWordData),
                         !.cwi = currentIndex,
                         !.idx = currentIndex + 1,
                         !.last = st.last + currentWordData.duration ]
        ELSE st

\* Mutant: the rendered index is the index after the increment.
AdvanceOnSampleIndexAfter(st, words, now) ==
    LET currentIndex == st.idx
        delta == now - st.last
        currentWordData == words[currentIndex + 1]
    IN  IF BoundaryReached(delta, currentWordData.duration)
        THEN [ st EXCEPT !.cw = Some(currentWordData),
                         !.cwi = currentIndex + 1,
                         !.idx = currentIndex + 1,
                         !.last = NextBoundaryTime(st.last, currentWordData.duration, now) ]
        ELSE st

\* lines 94-106: one boundary crossing at most per sample.
AdvanceOnSample(st, words, now) ==
    LET currentIndex == st.idx
        delta == now - st.last
        currentWordData == words[currentIndex + 1]
    IN  IF BoundaryReached(delta, currentWordData.duration)
        THEN [ st EXCEPT !.cw = Some(currentWordData),
                         !.cwi = currentIndex,
                         !.idx = currentIndex + 1,
                         !.last = NextBoundaryTime(st.last, currentWordData.duration, now) ]
        ELSE st

\* line 109: animationFrameRef.current = requestAnimationFrame(loop)
ContinueLoop(st) ==
    LET id == FreshHandle(st.used)
    IN  [ st EXCEPT !.afr = Some(id),
                    !.added = requestAnimationFrame(@, LoopRequest(id)),
                    !.used = @ \cup {id} ]

loop(st, now) ==
    IF LoopGuardStops(isPlayingRef, isPausedRef)
    THEN [ st EXCEPT !.afr = None ]
    ELSE IF IndexExhausted(st.idx, wordsRef)
    THEN [ st EXCEPT !.playing = FALSE, !.paused = FALSE, !.afr = None ]
    ELSE ContinueLoop(AdvanceOnSample(st, wordsRef, now))

\* The loop callbacks of one frame, run one after the other.
RECURSIVE RunLoops(_, _, _)
RunLoops(cbs, st, now) ==
    IF cbs = {} THEN st
    ELSE LET c == CHOOSE x \in cbs : \A y \in cbs : x.id <= y.id
         IN  RunLoops(cbs \ {c}, loop(st, now), now)

(***************************************************************************)
(* The observable playback state.                                          *)
(***************************************************************************)
PlaybackState ==
    IF isPlaying /\ isPaused THEN "playing+paused"
    ELSE IF isPlaying THEN "playing"
    ELSE IF isPaused THEN "paused"
    ELSE IF Len(preprocessedWords) > 0 /\ wordIndexRef >= Len(preprocessedWords)
    THEN "finished"
    ELSE "idle"

\* line 242: the word shown by the render.
DisplayedWord == IF currentWord # None /\ (isPlaying \/ isPaused) THEN currentWord ELSE None

(***************************************************************************)
(* components/ProgressBar.tsx, rendered by components/RSVPControls.tsx.    *)
(***************************************************************************)
\* RSVP.tsx line 230: totalWords={preprocessedWords.length}
totalWords == Len(preprocessedWords)

\* RSVPControls.tsx line 155: totalWords > 0 &&
ProgressShown == totalWords > 0

\* ProgressBar.tsx line 15: {current + 1} / {total}
ProgressPosition(current) == current + 1

\* ProgressBar.tsx line 9: total > 0 ? ((current + 1) / total) * 100 : 0,
\* in doubles.
progress(current, total) ==
    IF total > 0
    THEN DoubleTimes(DoubleOfRatio(current + 1, total), DoubleOfInt(100))
    ELSE [ m |-> [ j \in 1..MantissaLimbs |-> 0 ], e |-> 0 ]

(***************************************************************************)
(* components/RSVP.tsx: the effects, run at a commit.  The unprimed state  *)
(* variables are the previous render's values, the primed ones the new     *)
(* render's; q, afr and last are the queue, animationFrameRef and          *)
(* lastTimeRef as the handler or the frame's callbacks left them.          *)
(* React runs the cleanups of the effects whose dependencies changed, then *)
(* their bodies, in the order of declaration.                              *)
(***************************************************************************)
\* Mutant: the cleanup leaves the pending re-derivation in the queue.
UpdateCleanupKeeps(q, held) == q

\* lines 46-48: the cleanup of the wpm/text effect.
UpdateCleanup(q, held) ==
    IF held = None THEN q ELSE cancelAnimationFrame(q, held[1])

\* lines 115-120: the cleanup of the playback effect, as <<queue, ref>>.
PlaybackCleanup(q, afr) ==
    IF afr # None THEN <<cancelAnimationFrame(q, afr[1]), None>> ELSE <<q, afr>>

\* lines 64-67: the playback effect cancels what is pending when it finds
\* nothing to play, as <<queue, ref>>.
IdleCancel(q, afr) ==
    IF afr # None THEN <<cancelAnimationFrame(q, afr[1]), None>> ELSE <<q, afr>>

\* Mutant: a loop that is started keeps the boundary time it finds.
LoopBaselineKept(now, last) == last

\* line 72: lastTimeRef.current = performance.now()
LoopBaseline(now, last) == now

\* line 63
PlaybackEffectIdle(playing, paused, words) == ~playing \/ paused \/ Len(words) = 0

\* line 41: if (text)
TextPresent(txt) == Len(txt) > 0

\* History: the operation just invoked, the state it was invoked in, and
\* whether its commit cancelled a pending re-derivation.  The browser's own
\* steps (a frame, the passing of time) are recorded as "-".
Record(op, superseded) ==
    IF op = "-" THEN [ op |-> "-", from |-> "-", superseded |-> FALSE ]
    ELSE [ op |-> op, from |-> PlaybackState, superseded |-> superseded ]

\* History of an uninterrupted playback: the time and the index the loop was
\* started with, kept while no operation and no new sequence has intervened.
NewRun(t0, i0) == [ t0 |-> t0, i0 |-> i0, steady |-> TRUE ]
NoRun == [ t0 |-> 0, i0 |-> 0, steady |-> FALSE ]

Commit(wordsSet, op, interrupts, q, afr, last) ==
    LET rateDeps == wpm' # wpm \/ text' # text
        playDeps == isPlaying' # isPlaying \/ isPaused' # isPaused
        \* cleanups
        q1 == IF rateDeps THEN UpdateCleanup(q, updateFrame) ELSE q
        c2 == IF playDeps /\ loopCleanup THEN PlaybackCleanup(q1, afr) ELSE <<q1, afr>>
        q2 == c2[1]
        afr2 == c2[2]
        \* lines 34-36
        words == IF wordsSet THEN preprocessedWords' ELSE wordsRef
        \* lines 38-50
        schedule == rateDeps /\ TextPresent(text')
        updId == FreshHandle(QueueIds(q2) \cup Handles(afr2))
        q3 == IF schedule
              THEN requestAnimationFrame(q2, UpdateRequest(updId, text', wpm'))
              ELSE q2
        \* lines 62-121
        idle == PlaybackEffectIdle(isPlaying', isPaused', words)
        c4 == IF playDeps /\ idle THEN IdleCancel(q3, afr2) ELSE <<q3, afr2>>
        startLoop == playDeps /\ ~idle
        loopId == FreshHandle(QueueIds(q3) \cup Handles(afr2)
                              \cup (IF schedule THEN {updId} ELSE Handles(updateFrame)))
    IN  /\ wordsRef' = words
        /\ wpmRef' = IF rateDeps THEN wpm' ELSE wpmRef
        /\ updateFrame' = IF ~rateDeps THEN updateFrame
                          ELSE IF schedule THEN Some(updId) ELSE None
        /\ isPlayingRef' = IF isPlaying' # isPlaying THEN isPlaying' ELSE isPlayingRef
        /\ isPausedRef' = IF isPaused' # isPaused THEN isPaused' ELSE isPausedRef
        /\ lastTimeRef' = IF startLoop THEN LoopBaseline(clock, last) ELSE last
        /\ animationFrameRef' = IF startLoop THEN Some(loopId) ELSE c4[2]
        /\ rafQueue' = IF startLoop
                       THEN requestAnimationFrame(c4[1], LoopRequest(loopId))
                       ELSE c4[1]
        /\ loopCleanup' = IF playDeps THEN ~idle ELSE loopCleanup
        /\ run' = IF startLoop THEN NewRun(clock, wordIndexRef')
                  ELSE IF run.steady /\ ~interrupts /\ words = wordsRef
                          /\ LoopsPending(c4[1]) # {}
                  THEN run ELSE NoRun
        /\ lastOp' = Record(op, q1 # q)

\* A handler leaves the queue, animationFrameRef and lastTimeRef to the effects.
HandlerCommit(wordsSet, op, interrupts) ==
    Commit(wordsSet, op, interrupts, rafQueue, animationFrameRef, lastTimeRef)

(***************************************************************************)
(* components/RSVP.tsx: the handlers.                                      *)
(***************************************************************************)
\* Mutant: the new text is processed with the default rate.
LoadedSequenceDefaultRate(newText) == processText(newText, DEFAULT_WPM)

\* lines 127 and 142: processText(newText, wpmRef.current)
LoadedSequence(newText) == processText(newText, wpmRef)

\* Mutant: loading a text leaves the loop index where it is.
LoadedIndexKept == wordIndexRef

\* lines 129 and 144: wordIndexRef.current = 0
LoadedIndex == 0

\* lines 126-133 and 141-148: what typing and pasting do with the new text.
LoadText(newText, op) ==
    /\ text' = newText
    /\ preprocessedWords' = LoadedSequence(newText)
    /\ wordIndexRef' = LoadedIndex
    /\ currentWordIndex' = 0
    /\ currentWord' = None
    /\ isPlaying' = FALSE
    /\ isPaused' = FALSE
    /\ UNCHANGED <<wpm, clock>>
    /\ HandlerCommit(TRUE, op, TRUE)

handleTextChange(newText) == LoadText(newText, "text")

\* line 140
PastedText(pastedText) ==
    text \o (IF TextPresent(text) THEN <<" ">> ELSE <<>>) \o pastedText

handlePaste(pastedText) ==
    /\ Len(PastedText(pastedText)) <= MaxTextLen
    /\ LoadText(PastedText(pastedText), "paste")

\* Mutant: start() never rewinds the index.
StartKeepsIndex == FALSE

\* line 154 and line 170: the index is rewound before playing.
StartRewinds == wordIndexRef >= Len(preprocessedWords)
ResumeRewinds == Len(preprocessedWords) = 0 \/ wordIndexRef >= Len(preprocessedWords)

\* Mutant: start() does not look at the sequence.
StartNeverRefused == FALSE

\* line 153
StartRefused == Len(preprocessedWords) = 0

\* lines 158-159 and 174-175
Play(rewind, op) ==
    /\ wordIndexRef' = IF rewind THEN 0 ELSE wordIndexRef
    /\ currentWordIndex' = IF rewind THEN 0 ELSE currentWordIndex
    /\ isPlaying' = TRUE
    /\ isPaused' = FALSE
    /\ UNCHANGED <<text, preprocessedWords, currentWord, wpm, clock>>
    /\ HandlerCommit(FALSE, op, TRUE)

Unchanged(op) ==
    /\ lastOp' = Record(op, FALSE)
    /\ UNCHANGED <<text, preprocessedWords, currentWord, wpm, isPlaying, isPaused,
                currentWordIndex, wordIndexRef, lastTimeRef, animationFrameRef,
                wordsRef, wpmRef, isPlayingRef, isPausedRef, rafQueue, updateFrame,
                loopCleanup, clock, run>>

handleStart ==
    IF StartRefused THEN Unchanged("start") ELSE Play(StartRewinds, "start")

handleResume == Play(ResumeRewinds, "resume")

\* Mutant: pause() clears the playback as stop() does.
handlePauseClears ==
    /\ isPaused' = TRUE
    /\ isPlaying' = FALSE
    /\ wordIndexRef' = 0
    /\ currentWordIndex' = 0
    /\ currentWord' = None
    /\ UNCHANGED <<text, preprocessedWords, wpm, clock>>
    /\ HandlerCommit(FALSE, "pause", TRUE)

\* Mutant: pause() sets the paused flag and leaves the playing flag.
handlePauseKeepsPlaying ==
    /\ isPaused' = TRUE
    /\ UNCHANGED <<text, preprocessedWords, currentWord, wpm, clock,
                   wordIndexRef, currentWordIndex, isPlaying>>
    /\ HandlerCommit(FALSE, "pause", TRUE)

\* lines 163-166
handlePause ==
    /\ isPaused' = TRUE
    /\ isPlaying' = FALSE
    /\ UNCHANGED <<text, preprocessedWords, currentWord, wpm, clock,
                   wordIndexRef, currentWordIndex>>
    /\ HandlerCommit(FALSE, "pause", TRUE)

\* Mutant: stop() leaves the loop index where it is.
StopIndexKept == wordIndexRef

\* line 182: wordIndexRef.current = 0
StopIndex == 0

\* Mutant: stop() empties the sequence as well.
StopPlaybackDropsSequence(op) ==
    /\ isPlaying' = FALSE
    /\ isPaused' = FALSE
    /\ wordIndexRef' = 0
    /\ currentWordIndex' = 0
    /\ currentWord' = None
    /\ preprocessedWords' = <<>>
    /\ UNCHANGED <<text, wpm, clock>>
    /\ HandlerCommit(TRUE, op, TRUE)

\* lines 180-184
StopPlayback(op) ==
    /\ isPlaying' = FALSE
    /\ isPaused' = FALSE
    /\ wordIndexRef' = StopIndex
    /\ currentWordIndex' = 0
    /\ currentWord' = None
    /\ UNCHANGED <<text, preprocessedWords, wpm, clock>>
    /\ HandlerCommit(FALSE, op, TRUE)

handleStop == StopPlayback("stop")

\* Mutant: reset() zeroes the index without calling stop().
handleResetIndexOnly ==
    /\ wordIndexRef' = 0
    /\ currentWordIndex' = 0
    /\ UNCHANGED <<text, preprocessedWords, currentWord, wpm, clock,
                   isPlaying, isPaused>>
    /\ HandlerCommit(FALSE, "reset", TRUE)

\* lines 189-191: handleStop(), then the index is zeroed once more.
handleReset ==
    /\ StopPlayback("reset")
    /\ wordIndexRef' = 0
    /\ currentWordIndex' = 0

(***************************************************************************)
(* components/RSVPControls.tsx: the rate slider.                           *)
(***************************************************************************)
DigitValue(c) ==
    CASE c = "0" -> 0 [] c = "1" -> 1 [] c = "2" -> 2 [] c = "3" -> 3 [] c = "4" -> 4
      [] c = "5" -> 5 [] c = "6" -> 6 [] c = "7" -> 7 [] c = "8" -> 8 [] c = "9" -> 9

IsDigit(c) == c \in {"0", "1", "2", "3", "4", "5", "6", "7", "8", "9"}

\* Number.parseInt(value, 10) on an unsigned value: the number its leading
\* digits spell, NaN (None) without a leading digit.
RECURSIVE ParseDigits(_, _)
ParseDigits(s, acc) ==
    IF Len(s) > 0 /\ IsDigit(s[1])
    THEN ParseDigits(Tail(s), acc * 10 + DigitValue(s[1]))
    ELSE acc

parseInt(s) ==
    IF Len(s) > 0 /\ IsDigit(s[1]) THEN Some(ParseDigits(s, 0)) ELSE None

\* Mutant: every number is accepted as a rate.
RateAcceptedAnyNumber(newWpm) == newWpm # None

\* line 29
RateAccepted(newWpm) ==
    newWpm # None /\ newWpm[1] >= WPM_MIN /\ newWpm[1] <= WPM_MAX

\* RSVP.tsx lines 195-197
setRate(newWpm) ==
    /\ wpm' = newWpm
    /\ UNCHANGED <<text, preprocessedWords, currentWord, isPlaying, isPaused,
                   currentWordIndex, wordIndexRef, clock>>
    /\ HandlerCommit(FALSE, "rate", newWpm # wpm)

handleWpmChange(value) ==
    LET newWpm == parseInt(value)
    IN  IF RateAccepted(newWpm) THEN setRate(newWpm[1]) ELSE Unchanged("rate")

\* The buttons the controls render, and whether they are enabled.
StartButton == ~isPlaying /\ ~isPaused /\ Len(preprocessedWords) # 0
PauseButton == isPlaying /\ ~isPaused
ResumeButton == isPaused
StopButton == isPlaying \/ isPaused
ResetButton == currentWordIndex # 0

(***************************************************************************)
(* The browser: time passes, and an animation frame runs the callbacks     *)
(* pending at its start with the frame's timestamp.                        *)
(***************************************************************************)
Tick(dt) ==
    /\ clock + dt <= MaxTime * 100
    /\ clock' = clock + dt
    /\ lastOp' = Record("-", FALSE)
    /\ UNCHANGED <<text, preprocessedWords, currentWord, wpm, isPlaying, isPaused,
                   currentWordIndex, wordIndexRef, lastTimeRef, animationFrameRef,
                   wordsRef, wpmRef, isPlayingRef, isPausedRef, rafQueue, updateFrame,
                   loopCleanup, run>>

\* Mutant: the re-derivation ignores the rate it was scheduled with.
RederiveDefaultRate(request) == processText(request.text, DEFAULT_WPM)

\* lines 42-45: the deferred re-derivation callback.
Rederive(request) == processText(request.text, request.wpm)

Frame ==
    /\ rafQueue # {}
    /\ LET now == clock
           st0 == [ idx |-> wordIndexRef, last |-> lastTimeRef,
                    afr |-> animationFrameRef, added |-> {},
                    used |-> QueueIds(rafQueue) \cup Handles(animationFrameRef)
                             \cup Handles(updateFrame),
                    playing |-> isPlaying, paused |-> isPaused,
                    cw |-> currentWord, cwi |-> currentWordIndex ]
           st == RunLoops(LoopsPending(rafQueue), st0, now)
           updates == UpdatesPending(rafQueue)
       IN  /\ \/ /\ updates = {}
                 /\ preprocessedWords' = preprocessedWords
              \/ \E u \in updates : preprocessedWords' = Rederive(u)
           /\ isPlaying' = st.playing
           /\ isPaused' = st.paused
           /\ currentWord' = st.cw
           /\ currentWordIndex' = st.cwi
           /\ wordIndexRef' = st.idx
           /\ UNCHANGED <<text, wpm, clock>>
           /\ Commit(updates # {}, "-", FALSE, st.added, st.afr, st.last)

Init ==
    /\ text = <<>>
    /\ preprocessedWords = <<>>
    /\ currentWord = None
    /\ wpm = DEFAULT_WPM
    /\ isPlaying = FALSE
    /\ isPaused = FALSE
    /\ currentWordIndex = 0
    /\ wordIndexRef = 0
    /\ lastTimeRef = 0
    /\ animationFrameRef = None
    /\ wordsRef = <<>>
    /\ wpmRef = DEFAULT_WPM
    /\ isPlayingRef = FALSE
    /\ isPausedRef = FALSE
    /\ rafQueue = {}
    /\ updateFrame = None
    /\ loopCleanup = FALSE
    /\ clock = 0
    /\ lastOp = Record("-", FALSE)
    /\ run = NoRun

(***************************************************************************)
(* Spec: the operations invoked in any state, as the scheduler's public    *)
(* operations.  SpecUI: the operations as the rendered controls offer      *)
(* them (a button that is not rendered or is disabled cannot be clicked).  *)
(***************************************************************************)
TypeText == \E t \in TextInputs : handleTextChange(t)
PasteText == \E t \in PasteInputs : handlePaste(t)
ChangeRate == \E v \in RateInputs : handleWpmChange(v)
TimePasses == \E dt \in Steps : Tick(dt)

Next ==
    \/ TypeText
    \/ PasteText
    \/ ChangeRate
    \/ handleStart
    \/ handlePause
    \/ handleResume
    \/ handleStop
    \/ handleReset
    \/ Frame
    \/ TimePasses

Spec == Init /\ [][Next]_vars

ClickStart == StartButton /\ handleStart
ClickPause == PauseButton /\ handlePause
ClickResume == ResumeButton /\ handleResume
ClickStop == StopButton /\ handleStop
ClickReset == ResetButton /\ handleReset

NextUI ==
    \/ TypeText
    \/ PasteText
    \/ ChangeRate
    \/ ClickStart
    \/ ClickPause
    \/ ClickResume
    \/ ClickStop
    \/ ClickReset
    \/ Frame
    \/ TimePasses

SpecUI == Init /\ [][NextUI]_vars

(***************************************************************************)
(* Properties.                                                             *)
(***************************************************************************)
\* The sum of the durations of the records at the 0-based indices from..to-1.
RECURSIVE SumDurations(_, _, _)
SumDurations(words, from, to) ==
    IF from >= to \/ from >= Len(words) THEN 0
    ELSE words[from + 1].duration + SumDurations(words, from + 1, to)

LoopRunning == LoopsPending(rafQueue) # {}

\* C1: during an uninterrupted playback started at time t0 from index i0, the
\* scheduled boundary time after k advances is t0 plus the durations of the k
\* records played, whatever the sample times were.
C1_DriftFree ==
    run.steady =>
        lastTimeRef = run.t0 + SumDurations(wordsRef, run.i0, wordIndexRef)

\* A late sample has been processed: two advances, the boundary behind the clock.
C1_Witness ==
    /\ run.steady
    /\ wordIndexRef >= run.i0 + 2
    /\ lastTimeRef < clock
    /\ lastTimeRef = run.t0 + SumDurations(wordsRef, run.i0, wordIndexRef)

\* C2: after every sample processed while playing, the sequence is exhausted
\* or the time elapsed since the boundary is less than the duration of the
\* record at the current index (all boundaries passed have been crossed).
C2_CatchUp ==
    [][ (Frame /\ LoopRunning /\ ~LoopGuardStops(isPlayingRef, isPausedRef))
        => \/ wordIndexRef' >= Len(wordsRef)
           \/ clock' - lastTimeRef' < wordsRef[wordIndexRef' + 1].duration ]_vars

\* C3: right after stop(), whatever the state it was invoked in, the state is
\* Idle, both indices are 0 and no word is current.
C3_StopYieldsIdle ==
    lastOp.op = "stop" =>
        /\ ~isPlaying /\ ~isPaused
        /\ wordIndexRef = 0
        /\ currentWordIndex = 0
        /\ currentWord = None
        /\ DisplayedWord = None

\* stop() was invoked while Playing, in the middle of a word's window.
C3_Witness ==
    /\ lastOp.op = "stop"
    /\ lastOp.from = "playing"
    /\ clock > lastTimeRef
    /\ ~isPlaying /\ wordIndexRef = 0

\* C4: at most one sampling-loop callback is pending in any state.
C4_OneSubscription == Cardinality(LoopsPending(rafQueue)) <= 1

\* start() or resume() was invoked while a loop was running, and one loop is pending.
C4_Witness ==
    /\ lastOp.op \in {"start", "resume"}
    /\ lastOp.from = "playing"
    /\ Cardinality(LoopsPending(rafQueue)) = 1

\* C5: a pending re-derivation is always the one of the current text and
\* rate (a superseded one has been cancelled), at most one is pending, and
\* when none is pending the active sequence is process(text, rate).
C5_LastWriterWins ==
    /\ \A u \in UpdatesPending(rafQueue) : u.text = text /\ u.wpm = wpm
    /\ Cardinality(UpdatesPending(rafQueue)) <= 1
    /\ UpdatesPending(rafQueue) = {} =>
          /\ preprocessedWords = processText(text, wpm)
          /\ wordsRef = processText(text, wpm)

\* A rate change has cancelled a pending re-derivation and scheduled its own,
\* while the sequence of the old rate is still the active one.
C5_Witness ==
    /\ lastOp.op = "rate"
    /\ lastOp.superseded
    /\ updateFrame # None
    /\ UpdatesPending(rafQueue) = { UpdateRequest(updateFrame[1], text, wpm) }
    /\ preprocessedWords # processText(text, wpm)

\* The scheduled window of the record at 0-based index i, in a playback
\* started at t0 from index 0, holds the time t.
InScheduledWindow(words, t0, i, t) ==
    /\ t0 + SumDurations(words, 0, i) <= t
    /\ t < t0 + SumDurations(words, 0, i + 1)

\* C6: in an uninterrupted playback started from index 0, once playback has
\* been started or a sample processed, the word shown is the record whose
\* scheduled window holds the current time.
C6_CurrentDuringOwnWindow ==
    [][ ((Frame \/ handleStart) /\ run'.steady /\ run'.i0 = 0)
        => \A i \in 0..(Len(wordsRef') - 1) :
              InScheduledWindow(wordsRef', run'.t0, i, clock')
                 => DisplayedWord' = Some(wordsRef'[i + 1]) ]_vars

\* C7: right after text is typed or pasted, the active sequence is
\* process(text, rate), both indices are 0, the state is Idle, no word is
\* current and no sampling callback is pending.
C7_LoadTextResets ==
    lastOp.op \in {"text", "paste"} =>
        /\ preprocessedWords = processText(text, wpm)
        /\ wordsRef = preprocessedWords
        /\ wordIndexRef = 0
        /\ currentWordIndex = 0
        /\ ~isPlaying /\ ~isPaused
        /\ currentWord = None
        /\ DisplayedWord = None
        /\ LoopsPending(rafQueue) = {}
        /\ animationFrameRef = None

\* Text was typed while Playing, at the second rate.
C7_Witness ==
    /\ lastOp.op = "text"
    /\ lastOp.from = "playing"
    /\ wpm # DEFAULT_WPM
    /\ Len(preprocessedWords) > 0
    /\ ~isPlaying /\ LoopsPending(rafQueue) = {}

\* C8 as claimed: once the sequence re-derived for a new rate is installed
\* (the active sequence was still the one of the old rate), the index is 0,
\* the state is Idle and no sampling callback is pending.
C8_RederiveResets ==
    [][ (Frame /\ UpdatesPending(rafQueue) # {}
           /\ preprocessedWords # processText(text, wpm))
        => /\ wordIndexRef' = 0
           /\ currentWordIndex' = 0
           /\ ~isPlaying' /\ ~isPaused'
           /\ LoopsPending(rafQueue') = {} ]_vars

\* C8 as amended: the frame that installs the re-derived sequence makes
\* process(text, rate) the active sequence and resets nothing: with no loop
\* running the state, the indices and the current word are unchanged, and a
\* playback that is running goes on from its index.
C8_RederiveKeepsPlayback ==
    [][ (Frame /\ UpdatesPending(rafQueue) # {})
        => /\ preprocessedWords' = processText(text, wpm)
           /\ wordsRef' = preprocessedWords'
           /\ ~LoopRunning =>
                 /\ UNCHANGED <<isPlaying, isPaused, wordIndexRef,
                                currentWordIndex, currentWord>>
                 /\ LoopsPending(rafQueue') = {}
           /\ (LoopRunning /\ isPlayingRef /\ ~isPausedRef
                 /\ wordIndexRef < Len(wordsRef)) =>
                 /\ isPlaying' /\ ~isPaused'
                 /\ wordIndexRef' \in {wordIndexRef, wordIndexRef + 1}
                 /\ LoopsPending(rafQueue') # {} ]_vars

\* The sequence was re-derived at a new rate during playback: playback goes on
\* past index 0, and the current word is still the record of the old sequence.
C8_Witness ==
    /\ isPlaying /\ ~isPaused /\ LoopRunning
    /\ wordIndexRef >= 1
    /\ UpdatesPending(rafQueue) = {}
    /\ wordsRef = processText(text, wpm)
    /\ currentWord # None
    /\ currentWord[1].duration # wordsRef[currentWordIndex + 1].duration

\* C9: start() on an empty sequence changes nothing: the state (Idle when it
\* was Idle), the indices, the current word and the queue stay as they were.
C9_StartOnEmptyIsNoOp ==
    [][ (handleStart /\ Len(preprocessedWords) = 0)
        => /\ UNCHANGED <<text, preprocessedWords, currentWord, wpm, isPlaying,
                          isPaused, currentWordIndex, wordIndexRef, lastTimeRef,
                          animationFrameRef, wordsRef, rafQueue>>
           /\ PlaybackState = "idle" => PlaybackState' = "idle" ]_vars

\* start() was invoked in Idle on an empty sequence.
C9_Witness ==
    /\ lastOp.op = "start"
    /\ lastOp.from = "idle"
    /\ Len(preprocessedWords) = 0
    /\ ~isPlaying /\ ~isPaused
    /\ rafQueue = {}

\* C10: with an empty sequence the state is never Playing.
C10_EmptyNeverPlaying == Len(preprocessedWords) = 0 => ~isPlaying

(***************************************************************************)
(* SpecLive: a playback set up and interrupted through the rendered        *)
(* controls, under the browser's scheduling.  A pending animation-frame    *)
(* callback is eventually run: a frame that runs the sampling loop is      *)
(* taken if it stays possible; and time passes as long as the modelled     *)
(* horizon allows.                                                         *)
(***************************************************************************)
SamplingFrame ==
    /\ LoopsPending(rafQueue) # {}
    /\ UpdatesPending(rafQueue) = {}
    /\ Frame

NextLive ==
    \/ TypeText
    \/ ChangeRate
    \/ ClickStart
    \/ ClickPause
    \/ ClickResume
    \/ ClickStop
    \/ Frame
    \/ TimePasses

SpecLive ==
    Init /\ [][NextLive]_vars /\ WF_vars(SamplingFrame) /\ WF_vars(TimePasses)

(***************************************************************************)
(* SpecPure: processText applied to every text of up to PureTextLen        *)
(* characters over a small alphabet, at the least, the default and the     *)
(* greatest rate.                                                          *)
(***************************************************************************)
PureTextLen == 6
PureAlphabet == { "a", ".", " ", "\n" }
\* The text of the end-to-end scenario, and a text with the other
\* punctuation marks that lengthen a word.
ScenarioText ==
    << "H", "e", "l", "l", "o", ",", " ", "w", "o", "r", "l", "d", ".",
       " ", "T", "e", "s", "t", "i", "n", "g", " ", "R", "S", "V", "P",
       "." >>

PunctuationText ==
    << "a", "!", " ", "b", "?", " ", "c", ";", " ", "d", ":", " ", "e",
       ",", " ", ".", "f" >>

PureTexts ==
    UNION { [1..k -> PureAlphabet] : k \in 0..PureTextLen }
        \cup { ScenarioText, PunctuationText }
PureRates == { WPM_MIN, DEFAULT_WPM, WPM_MAX }

\* The doubles line 103 computes, for the rates and the multipliers drawn.
DurationTable ==
    [ w \in PureRates, m \in {100, 115, 130} |-> durationDouble(w, m) ]

\* lines 85 and 103: the duration of a word's record, as a double.
durationMs(word, baseWpm) ==
    DurationTable[baseWpm, getPunctuationMultiplier(word)]

PureInit ==
    /\ text \in PureTexts
    /\ wpm \in PureRates
    /\ preprocessedWords = <<>>
    /\ currentWord = None
    /\ isPlaying = FALSE
    /\ isPaused = FALSE
    /\ currentWordIndex = 0
    /\ wordIndexRef = 0
    /\ lastTimeRef = 0
    /\ animationFrameRef = None
    /\ wordsRef = <<>>
    /\ wpmRef = wpm
    /\ isPlayingRef = FALSE
    /\ isPausedRef = FALSE
    /\ rafQueue = {}
    /\ updateFrame = None
    /\ loopCleanup = FALSE
    /\ clock = 0
    /\ lastOp = Record("-", FALSE)
    /\ run = NoRun

Process ==
    /\ lastOp.op = "-"
    /\ preprocessedWords' = processText(text, wpm)
    /\ lastOp' = Record("process", FALSE)
    /\ UNCHANGED <<text, currentWord, wpm, isPlaying, isPaused, currentWordIndex,
                   wordIndexRef, lastTimeRef, animationFrameRef, wordsRef, wpmRef,
                   isPlayingRef, isPausedRef, rafQueue, updateFrame, loopCleanup,
                   clock, run>>

PureNext == Process

SpecPure == PureInit /\ [][PureNext]_vars

\* C11: with a non-empty sequence, start() and resume() lead to Playing; an
\* index at or past the end is rewound to 0, any other index is kept, and a
\* sampling loop is pending that goes on from that index (started at the
\* current time when no loop was running).
C11_StartPlays ==
    [][ ((handleStart \/ handleResume) /\ Len(preprocessedWords) > 0)
        => /\ isPlaying' /\ ~isPaused'
           /\ PlaybackState' = "playing"
           /\ IF wordIndexRef >= Len(preprocessedWords)
              THEN wordIndexRef' = 0 /\ currentWordIndex' = 0
              ELSE UNCHANGED <<wordIndexRef, currentWordIndex>>
           /\ UNCHANGED <<preprocessedWords, wordsRef, currentWord>>
           /\ Cardinality(LoopsPending(rafQueue')) = 1
           /\ ~LoopRunning => lastTimeRef' = clock ]_vars

\* start() was invoked on a finished playback and has rewound the index.
C11_Witness ==
    /\ lastOp.op = "start"
    /\ lastOp.from = "finished"
    /\ isPlaying /\ ~isPaused
    /\ wordIndexRef = 0
    /\ LoopRunning

\* C12: pause() invoked while Playing leads to Paused and leaves the indices,
\* the current and the displayed word and the active sequence as they were;
\* the sampling loop is cancelled.
C12_PauseKeepsPosition ==
    [][ (handlePause /\ PlaybackState = "playing")
        => /\ PlaybackState' = "paused"
           /\ UNCHANGED <<wordIndexRef, currentWordIndex, currentWord,
                          preprocessedWords, wordsRef>>
           /\ DisplayedWord' = DisplayedWord
           /\ LoopsPending(rafQueue') = {} ]_vars

\* pause() was invoked while Playing, after the first word had been shown.
C12_Witness ==
    /\ lastOp.op = "pause"
    /\ lastOp.from = "playing"
    /\ isPaused /\ ~isPlaying
    /\ wordIndexRef = 1
    /\ DisplayedWord = Some(wordsRef[1])

\* C13: pause() invoked in a state other than Playing changes nothing: the
\* state, the indices and the displayed word stay as they were.
C13_PauseElsewhereIsNoOp ==
    [][ (handlePause /\ PlaybackState # "playing")
        => /\ PlaybackState' = PlaybackState
           /\ UNCHANGED <<wordIndexRef, currentWordIndex>>
           /\ DisplayedWord' = DisplayedWord ]_vars

\* The playback has ended: the index is the length of the sequence, the
\* state is neither playing nor paused, and no callback is pending.
PlaybackEnded ==
    /\ wordIndexRef = Len(wordsRef)
    /\ ~isPlaying /\ ~isPaused
    /\ rafQueue = {}
    /\ animationFrameRef = None

\* Playing over a non-empty sequence, no operation just invoked and no
\* re-derivation pending, the scheduled end within the modelled time.
PlayingToEnd ==
    /\ isPlaying /\ ~isPaused
    /\ Len(wordsRef) > 0
    /\ lastOp.op = "-"
    /\ UpdatesPending(rafQueue) = {}
    /\ lastTimeRef + SumDurations(wordsRef, wordIndexRef, Len(wordsRef))
          <= MaxTime * 100

\* C14: from Playing over a non-empty sequence, with frames firing and time
\* passing, the playback ends (index = length, neither playing nor paused,
\* nothing pending) unless an operation is invoked first.
C14_Terminates == PlayingToEnd ~> (PlaybackEnded \/ lastOp.op # "-")

\* A playback has run to its end through the loop, the last word current.
C14_Witness ==
    /\ lastOp.op = "-"
    /\ Len(wordsRef) = 2
    /\ PlaybackEnded
    /\ currentWord = Some(wordsRef[2])

\* C15: stop(), reset() and pause() leave no sampling callback pending and
\* the loop's flags off; and while the state is not Playing a frame neither
\* emits a word nor moves an index nor schedules a sampling callback.  The
\* state stays not Playing until start() or resume() is invoked.
C15_SamplingStops ==
    [][ /\ (handleStop \/ handleReset \/ handlePause)
           => /\ ~isPlaying'
              /\ LoopsPending(rafQueue') = {}
              /\ animationFrameRef' = None
              /\ LoopGuardStops(isPlayingRef', isPausedRef')
        /\ (~isPlaying /\ ~(handleStart \/ handleResume))
           => /\ ~isPlaying'
              /\ LoopsPending(rafQueue') = {}
        /\ (~isPlaying /\ Frame)
           => UNCHANGED <<wordIndexRef, currentWordIndex, currentWord,
                          isPlaying, isPaused>> ]_vars

\* A playback was paused with the next boundary already passed; time went
\* on and a frame has run since (the re-derivation of a rate change), and
\* the index and the word are those of the pause.
C15_Witness ==
    /\ isPaused /\ ~isPlaying
    /\ lastOp.op = "-"
    /\ rafQueue = {}
    /\ wordIndexRef = 1
    /\ currentWordIndex = 0
    /\ clock - lastTimeRef >= wordsRef[2].duration
    /\ currentWord # None
    /\ currentWord[1].duration # wordsRef[1].duration

\* C16: the rate starts at 300 and is always an integer from 100 to 1000; a
\* requested value that is not a number or lies outside that range leaves
\* the rate, the active sequence and the callback queue as they were.
C16_RateInRange ==
    /\ wpm = DEFAULT_WPM
    /\ [][ /\ wpm' \in WPM_MIN..WPM_MAX
           /\ \A v \in RateInputs :
                 (/\ handleWpmChange(v)
                  /\ \/ parseInt(v) = None
                     \/ parseInt(v)[1] < WPM_MIN
                     \/ parseInt(v)[1] > WPM_MAX)
                 => UNCHANGED <<wpm, wpmRef, preprocessedWords, wordsRef,
                                rafQueue, updateFrame>> ]_vars

\* A rate request has left the second rate in place and scheduled nothing,
\* the active sequence being the one of that rate.
C16_Witness ==
    /\ lastOp.op = "rate"
    /\ wpm = 600
    /\ Len(wordsRef) > 0
    /\ wordsRef = processText(text, wpm)
    /\ UpdatesPending(rafQueue) = {}

\* What stop() makes of a state: Idle, the indices 0, no current word, the
\* sampling callback cancelled, and everything else as it was.
Stopped ==
    /\ ~isPlaying' /\ ~isPaused'
    /\ wordIndexRef' = 0
    /\ currentWordIndex' = 0
    /\ currentWord' = None
    /\ DisplayedWord' = None
    /\ rafQueue' = UpdatesPending(rafQueue)
    /\ animationFrameRef' = None
    /\ ~isPlayingRef' /\ ~isPausedRef'
    /\ ~loopCleanup'
    /\ UNCHANGED <<text, preprocessedWords, wordsRef, wpm, wpmRef, updateFrame,
                   lastTimeRef, clock>>

\* C17: from every state stop() and reset() lead to the same state, the one
\* Stopped describes; and stop() or reset() applied to the result of either
\* changes nothing.
C17_ResetIsStop ==
    [][ /\ handleStop => Stopped
        /\ handleReset => Stopped
        /\ ((handleStop \/ handleReset) /\ lastOp.op \in {"stop", "reset"})
           => UNCHANGED <<text, preprocessedWords, currentWord, wpm, isPlaying,
                          isPaused, currentWordIndex, wordIndexRef, lastTimeRef,
                          animationFrameRef, wordsRef, wpmRef, isPlayingRef,
                          isPausedRef, rafQueue, updateFrame, loopCleanup,
                          clock, run>> ]_vars

\* reset() was invoked on a paused playback whose first word was shown.
C17_Witness ==
    /\ lastOp.op = "reset"
    /\ lastOp.from = "paused"
    /\ ~isPlaying /\ ~isPaused
    /\ wordIndexRef = 0 /\ currentWordIndex = 0
    /\ currentWord = None
    /\ lastTimeRef > 0

\* C18: start, pause, resume, stop, reset and a frame that runs no
\* re-derivation leave the active sequence as it is; a word emitted by a
\* frame is the sequence's record at the emitted index; and the sequence
\* changes only in a text load or in the frame of a re-derivation, to the
\* sequence derived from the text and the rate.
C18_SequenceReadOnly ==
    [][ /\ (\/ handleStart \/ handlePause \/ handleResume
            \/ handleStop \/ handleReset
            \/ (Frame /\ UpdatesPending(rafQueue) = {}))
           => UNCHANGED <<preprocessedWords, wordsRef>>
        /\ (Frame /\ currentWord' # currentWord)
           => currentWord' = Some(wordsRef[currentWordIndex' + 1])
        /\ (preprocessedWords' # preprocessedWords \/ wordsRef' # wordsRef)
           => /\ preprocessedWords' = processText(text', wpm')
              /\ wordsRef' = preprocessedWords'
              /\ \/ lastOp'.op \in {"text", "paste"}
                 \/ Frame /\ UpdatesPending(rafQueue) # {} ]_vars

\* The sampling loop has emitted both records of a sequence, which is still
\* the one derived from the text and the rate.
C18_Witness ==
    /\ lastOp.op = "-"
    /\ isPlaying /\ LoopRunning
    /\ wordIndexRef = 2
    /\ currentWord = Some(wordsRef[2])
    /\ wordsRef = processText(text, wpm)
    /\ preprocessedWords = wordsRef

\* The tokens of a text, read off the text itself: a token starts at a
\* non-whitespace character that is the first character or follows a
\* whitespace character, and runs up to the next whitespace character or
\* the end of the text.
TokenStarts(s) ==
    { i \in 1..Len(s) : ~IsWhitespace(s[i]) /\ (i = 1 \/ IsWhitespace(s[i - 1])) }

TokenEnd(s, i) ==
    CHOOSE j \in i..Len(s) :
        /\ \A k \in i..j : ~IsWhitespace(s[k])
        /\ j = Len(s) \/ IsWhitespace(s[j + 1])

\* The n-th token start, in document order.
NthTokenStart(s, n) ==
    CHOOSE i \in TokenStarts(s) : Cardinality({ j \in TokenStarts(s) : j < i }) = n - 1

\* C19: process(text, wpm) has one record per token of the text, in document
\* order, the record's word being the token; no word is empty, and a text
\* that is empty or all whitespace gives the empty sequence.
C19_OneRecordPerToken ==
    lastOp.op = "process" =>
        /\ Len(preprocessedWords) = Cardinality(TokenStarts(text))
        /\ \A n \in 1..Len(preprocessedWords) :
              /\ preprocessedWords[n].word =
                    SubSeq(text, NthTokenStart(text, n),
                           TokenEnd(text, NthTokenStart(text, n)))
              /\ Len(preprocessedWords[n].word) > 0
        /\ (\A i \in 1..Len(text) : IsWhitespace(text[i])) => preprocessedWords = <<>>

\* A text with whitespace at both ends and a run of mixed whitespace between
\* two tokens has been processed into two records.
C19_Witness ==
    /\ lastOp.op = "process"
    /\ text = <<" ", "a", ".", "\n", " ", "a">>
    /\ Len(preprocessedWords) = 2
    /\ preprocessedWords[1].word = <<"a", ".">>
    /\ preprocessedWords[2].word = <<"a">>

\* C20: in every record process produces, beforeText, anchorChar and
\* afterText joined give the word, beforeText has anchorIndex characters,
\* anchorChar has exactly one, and 0 <= anchorIndex < the word's length.
C20_AnchorSplitsWord ==
    lastOp.op = "process" =>
        \A n \in 1..Len(preprocessedWords) :
            LET r == preprocessedWords[n]
            IN  /\ r.beforeText \o r.anchorChar \o r.afterText = r.word
                /\ Len(r.beforeText) = r.anchorIndex
                /\ Len(r.anchorChar) = 1
                /\ 0 <= r.anchorIndex /\ r.anchorIndex < Len(r.word)
                /\ r.anchorChar = <<r.word[r.anchorIndex + 1]>>

\* A word of six characters has been split at its third character.
C20_Witness ==
    /\ lastOp.op = "process"
    /\ Len(preprocessedWords) = 1
    /\ Len(preprocessedWords[1].word) = 6
    /\ preprocessedWords[1].anchorIndex = 2
    /\ Len(preprocessedWords[1].afterText) = 3

\* The anchor index the rule gives for a word of n characters.
AnchorOfLength(n) ==
    IF n = 0 THEN 0
    ELSE IF n \in 1..3 THEN n \div 2
    ELSE IF n \div 3 >= 1 THEN n \div 3 ELSE 1

\* C21: the anchor index of a word is the one the rule gives for its length
\* (0 for length 1, 1 for length 3, 2 for length 7), for the text taken as a
\* word and for every record process produces.
C21_AnchorByLength ==
    /\ AnchorOfLength(0) = 0 /\ AnchorOfLength(1) = 0
    /\ AnchorOfLength(3) = 1 /\ AnchorOfLength(7) = 2
    /\ calculateORP(text) = AnchorOfLength(Len(text))
    /\ lastOp.op = "process" =>
          \A n \in 1..Len(preprocessedWords) :
              preprocessedWords[n].anchorIndex =
                  AnchorOfLength(Len(preprocessedWords[n].word))

\* The scenario text has been processed: its word of seven characters has
\* the anchor index 2, its words of six and five have 2 and 1.
C21_Witness ==
    /\ lastOp.op = "process"
    /\ text = ScenarioText
    /\ Len(preprocessedWords[3].word) = 7
    /\ preprocessedWords[3].anchorIndex = 2
    /\ preprocessedWords[1].anchorIndex = 2
    /\ preprocessedWords[4].anchorIndex = 1

\* The multiplier the rule gives for a word, in hundredths, read off its
\* last character.
NominalMultiplier(word) ==
    LET last == word[Len(word)]
    IN  IF last \in {".", "!", "?"} THEN 130
        ELSE IF last \in {",", ";", ":"} THEN 115
        ELSE 100

\* (60000 / wpm) * multiplier, a whole number of milliseconds at the rates
\* drawn, as an integer and as a double.
NominalMs(w, m) == (60000 * m) \div (w * 100)

NominalTable ==
    [ w \in PureRates, m \in {100, 115, 130} |-> DoubleOfInt(NominalMs(w, m)) ]

\* The double d is the whole number double n, or a neighbour of it.
WithinOneUlp(d, n) ==
    /\ d.e = n.e
    /\ d.m = n.m \/ AddOne(d.m) = n.m \/ d.m = AddOne(n.m)

\* The double next below the whole number double n (229.99999999999997
\* for 230).
OneUlpBelow(d, n) == d.e = n.e /\ AddOne(d.m) = n.m

ScenarioWords ==
    << <<"H", "e", "l", "l", "o", ",">>,
       <<"w", "o", "r", "l", "d", ".">>,
       <<"T", "e", "s", "t", "i", "n", "g">>,
       <<"R", "S", "V", "P", ".">> >>

\* C22 as claimed: the duration of every record is exactly
\* (60000 / wpm) * multiplier, the multiplier chosen by the last character;
\* the scenario text at 300 WPM gives the four words with the durations
\* 230, 260, 200 and 260.
C22_DurationExact ==
    lastOp.op = "process" =>
        /\ \A n \in 1..Len(preprocessedWords) :
              durationMs(preprocessedWords[n].word, wpm) =
                  NominalTable[wpm, NominalMultiplier(preprocessedWords[n].word)]
        /\ (text = ScenarioText /\ wpm = DEFAULT_WPM) =>
              /\ [ n \in 1..Len(preprocessedWords) |-> preprocessedWords[n].word ]
                    = ScenarioWords
              /\ [ n \in 1..Len(preprocessedWords) |->
                      durationMs(preprocessedWords[n].word, wpm) ]
                    = << DoubleOfInt(230), DoubleOfInt(260),
                         DoubleOfInt(200), DoubleOfInt(260) >>

\* C22 as amended: the duration is the double ((60 / wpm) * 1000) *
\* multiplier, the multiplier chosen by the last character alone; it is
\* (60000 / wpm) * multiplier to the whole millisecond and within one unit
\* in the last place, exact for the multipliers 1.0 and 1.3 at the rates
\* drawn; at 300 WPM it is 260, the double next below 230, and 200, and the
\* scenario text gives the four words with the double next below 230, then
\* 260, 200 and 260.
C22_DurationWithinUlp ==
    lastOp.op = "process" =>
        /\ \A n \in 1..Len(preprocessedWords) :
              LET r == preprocessedWords[n]
                  m == NominalMultiplier(r.word)
              IN  /\ (60000 * m) % (wpm * 100) = 0
                  /\ r.duration = NominalMs(wpm, m)
                  /\ WithinOneUlp(durationMs(r.word, wpm), NominalTable[wpm, m])
                  /\ m # 115 => durationMs(r.word, wpm) = NominalTable[wpm, m]
                  /\ wpm = DEFAULT_WPM =>
                        /\ r.duration = (IF m = 130 THEN 260
                                          ELSE IF m = 115 THEN 230 ELSE 200)
                        /\ m = 115 => OneUlpBelow(durationMs(r.word, wpm),
                                                   DoubleOfInt(230))
        /\ (text = ScenarioText /\ wpm = DEFAULT_WPM) =>
              /\ [ n \in 1..Len(preprocessedWords) |-> preprocessedWords[n].word ]
                    = ScenarioWords
              /\ [ n \in 1..Len(preprocessedWords) |-> preprocessedWords[n].duration ]
                    = <<230, 260, 200, 260>>
              /\ OneUlpBelow(durationMs(preprocessedWords[1].word, wpm),
                             DoubleOfInt(230))
              /\ [ n \in 2..4 |-> durationMs(preprocessedWords[n].word, wpm) ]
                    = [ n \in 2..4 |-> DoubleOfInt(preprocessedWords[n].duration) ]

\* The scenario text has been processed at 300 WPM: four records, the
\* first one's duration the double next below 230.
C22_Witness ==
    /\ lastOp.op = "process"
    /\ text = ScenarioText
    /\ wpm = DEFAULT_WPM
    /\ Len(preprocessedWords) = 4
    /\ preprocessedWords[1].duration = 230
    /\ durationMs(preprocessedWords[1].word, wpm) # DoubleOfInt(230)
    /\ OneUlpBelow(durationMs(preprocessedWords[1].word, wpm), DoubleOfInt(230))

\* C23: in an uninterrupted playback started from index 0, a frame either
\* emits nothing or emits exactly the record at the index and moves the
\* index by one; the playback ends only with the index at the length; and
\* once k records are emitted the current word is the k-th record.  So the
\* words emitted are the records 0 .. N-1, once each and in order, however
\* late the samples are.
C23_DocumentOrder ==
    [][ /\ (Frame /\ run.steady /\ run.i0 = 0)
           => /\ wordIndexRef' \in {wordIndexRef, wordIndexRef + 1}
              /\ wordIndexRef' <= Len(wordsRef)
              /\ wordIndexRef' = wordIndexRef + 1
                    => /\ currentWord' = Some(wordsRef[wordIndexRef + 1])
                       /\ currentWordIndex' = wordIndexRef
                       /\ DisplayedWord' = currentWord'
              /\ wordIndexRef' = wordIndexRef
                    => UNCHANGED <<currentWord, currentWordIndex>>
              /\ ~isPlaying' => wordIndexRef' = Len(wordsRef)
        /\ (run'.steady /\ run'.i0 = 0 /\ wordIndexRef' >= 1)
           => /\ currentWord' = Some(wordsRef'[wordIndexRef'])
              /\ currentWordIndex' = wordIndexRef' - 1 ]_vars

\* A playback started from index 0 and sampled only once both boundaries
\* had passed has emitted the second record, after the first.
C23_Witness ==
    /\ run.steady /\ run.i0 = 0
    /\ lastOp.op = "-"
    /\ wordIndexRef = 2
    /\ currentWord = Some(wordsRef[2])
    /\ currentWordIndex = 1
    /\ clock - run.t0 >= SumDurations(wordsRef, 0, 2)
    /\ clock = run.t0 + 500

\* C24: resume() of a paused playback at time t makes t the boundary time
\* and leaves the index (short of the end) where it was; and in the
\* playback so started the index first moves at a sample whose time is at
\* least t plus the duration of the record at the index.
C24_ResumeRestartsWindow ==
    [][ /\ (handleResume /\ PlaybackState = "paused" /\ Len(wordsRef) > 0)
           => /\ lastTimeRef' = clock
              /\ run' = NewRun(clock, wordIndexRef')
              /\ LoopsPending(rafQueue') # {}
              /\ wordIndexRef < Len(wordsRef) => wordIndexRef' = wordIndexRef
        /\ (Frame /\ run.steady /\ wordIndexRef = run.i0
              /\ wordIndexRef' # wordIndexRef)
           => /\ wordIndexRef' = run.i0 + 1
              /\ clock >= run.t0 + wordsRef[run.i0 + 1].duration ]_vars

\* A playback paused after its first record was emitted has been resumed:
\* the boundary time is the time of the resume, later than the first
\* record's boundary.
C24_Witness ==
    /\ lastOp.op = "resume"
    /\ lastOp.from = "paused"
    /\ isPlaying /\ LoopRunning
    /\ wordIndexRef = 1
    /\ lastTimeRef = clock
    /\ clock > wordsRef[1].duration
    /\ run = NewRun(clock, 1)

\* C25: the playing flag and the paused flag are never both set, in the
\* rendered state and in the refs the loop reads.
C25_PlayingXorPaused ==
    /\ ~(isPlaying /\ isPaused)
    /\ ~(isPlayingRef /\ isPausedRef)

\* A running playback has been paused: the paused flag is set and the
\* playing flag has been cleared.
C25_Witness ==
    /\ lastOp.op = "pause"
    /\ lastOp.from = "playing"
    /\ isPaused /\ ~isPlaying
    /\ isPausedRef /\ ~isPlayingRef
    /\ wordIndexRef >= 1

\* C26: the loop index is never negative and never greater than the length
\* of the sequence the loop reads, which is the rendered sequence; so the
\* record the loop reads at the index, when it reads one, exists.
C26_IndexInBounds ==
    /\ wordsRef = preprocessedWords
    /\ 0 <= wordIndexRef
    /\ wordIndexRef <= Len(wordsRef)

\* A sequence was played to its end, the index equal to its length, and the
\* text was then replaced by one without words: the index is back at 0, the
\* length of the shorter sequence.
C26_Witness ==
    /\ lastOp.op = "text"
    /\ lastOp.from = "finished"
    /\ Len(wordsRef) = 0
    /\ wordIndexRef = 0

\* C27: whenever a current word is set, the rendered index addresses a record
\* of the rendered sequence and that record's word is the current word's.
C27_WordAgreesWithIndex ==
    currentWord # None =>
        /\ currentWordIndex < Len(preprocessedWords)
        /\ currentWord[1].word = preprocessedWords[currentWordIndex + 1].word

\* C28: in every state a loop callback is pending exactly when the rendered
\* state is playing and not paused.
C28_LoopIffPlaying == LoopRunning <=> (isPlaying /\ ~isPaused)

\* d <= n for positive doubles.
DoubleAtMost(d, n) ==
    \/ d.e < n.e
    \/ /\ d.e = n.e
       /\ \/ d.m = n.m
          \/ \E j \in 1..MantissaLimbs :
                /\ d.m[j] < n.m[j]
                /\ \A k \in (j + 1)..MantissaLimbs : d.m[k] = n.m[k]

\* The percentages of the positions 1..MaxTextLen + 1 of sequences of up to
\* MaxTextLen + 1 records.
ProgressTable ==
    [ c \in 0..MaxTextLen, t \in 1..(MaxTextLen + 1) |-> progress(c, t) ]

\* C29: whenever the progress indicator is rendered, the rendered index is
\* less than the number of records, the position shown is between 1 and that
\* number, and the percentage is at most 100.
C29_ProgressWithinTotal ==
    ProgressShown =>
        /\ 0 <= currentWordIndex
        /\ currentWordIndex < totalWords
        /\ ProgressPosition(currentWordIndex) \in 1..totalWords
        /\ DoubleAtMost(ProgressTable[currentWordIndex, totalWords], DoubleOfInt(100))

\* The last record of a sequence of two has been emitted and the playback
\* has ended: the position shown is the total and the percentage is 100.
C29_Witness ==
    /\ totalWords = 2
    /\ wordIndexRef = 2
    /\ currentWordIndex = 1
    /\ ~isPlaying /\ ~isPaused
    /\ lastOp.op = "-"
    /\ ProgressPosition(currentWordIndex) = totalWords
    /\ ProgressTable[currentWordIndex, totalWords] = DoubleOfInt(100)

====
